---- MODULE Spec2Model ----
(***************************************************************************)
(* File-upload preview service (src/main.py).                              *)
(*                                                                         *)
(* Two state machines over one set of variables:                           *)
(*   SpecAnnot  the page annotator process_image as a pure function, fed   *)
(*              with bounded raster images and the 24 option combinations; *)
(*   Spec       the /upload/ handler over the two storage directories,     *)
(*              followed by the slider script of the returned gallery.     *)
(*                                                                         *)
(* A file name is modelled by the list Python's name.split('.') returns    *)
(* ("a.b.PDF" is <<"a", "b", "PDF">>, "pdf" is <<"pdf">>); split and join  *)
(* are inverse to each other, so the list identifies the name.             *)
(***************************************************************************)
EXTENDS Integers, Sequences, FiniteSets, TLC

VARIABLES
    image,        \* annotator: the raster image first handed to process_image
    passes,       \* annotator: the options of each process_image call so far
    result,       \* annotator: the image the last call saved
    served,       \* server: number of upload requests handled so far
    req,          \* server: req[r] is the r-th request (file and form fields)
    resp,         \* server: resp[r] is what the r-th request got back
    uploadDir,    \* server: UPLOAD_FOLDER, file name -> stored document
    imageDir,     \* server: IMAGE_FOLDER, file name -> stored raster image
    currentIndex  \* browser: currentIndex of the script of the page last returned

annotVars == <<image, passes, result>>
serverVars == <<served, req, resp, uploadDir, imageDir, currentIndex>>
vars == <<image, passes, result, served, req, resp, uploadDir, imageDir, currentIndex>>

(***************************************************************************)
(* Bounds                                                                  *)
(***************************************************************************)
MaxPasses == 2      \* process_image calls chained on one image
NumRequests == 2    \* upload requests per behaviour
MaxPages == 2       \* pages of an uploaded document

(***************************************************************************)
(* Form fields (src/main.py 35-57) and what a client may send instead      *)
(***************************************************************************)
CopyColors == {"black_and_white", "color"}
Orientations == {"portrait", "landscape"}
PaperPunches == {"no_hole", "two_holes", "three_holes"}
PaperBindings == {"no_staple", "corner_staple"}

FinishingOptions ==
    [copy_color : CopyColors, orientation : Orientations,
     paper_punch : PaperPunches, paper_binding : PaperBindings]

\* Form(...) declares each field as str: any string is accepted.
ValidOptions(o) ==
    /\ o.copy_color \in CopyColors
    /\ o.orientation \in Orientations
    /\ o.paper_punch \in PaperPunches
    /\ o.paper_binding \in PaperBindings

(***************************************************************************)
(* A JavaScript number: an integer or NaN                                  *)
(***************************************************************************)
JsNum(n) == [nan |-> FALSE, v |-> n]
JsNaN == [nan |-> TRUE, v |-> 0]

(***************************************************************************)
(* A directory is a function from file names to contents; writing a file   *)
(* creates it or replaces what the name held.                              *)
(***************************************************************************)
EmptyDir == [n \in {} |-> 0]

Put(dir, name, content) ==
    [n \in DOMAIN dir \cup {name} |-> IF n = name THEN content ELSE dir[n]]

(***************************************************************************)
(* Raster images.  ops is the list of PIL calls applied since the raster   *)
(* was produced, in call order; w, h and mode are img.size and img.mode.   *)
(***************************************************************************)
Raster(owner, page, mode, w, h) ==
    [owner |-> owner, page |-> page, mode |-> mode, w |-> w, h |-> h, ops |-> <<>>]

\* img.convert("L")
convert_L(img) ==
    [img EXCEPT !.mode = "L", !.ops = Append(@, [op |-> "convert", args |-> <<>>])]

\* Variant: the turn with the canvas kept, as expand=False would leave it.
rotate_90_expand_noswap(img) ==
    [img EXCEPT !.ops = Append(@, [op |-> "rotate", args |-> <<90>>])]

\* img.rotate(90, expand=True): the canvas grows to hold the turned image
rotate_90_expand(img) ==
    [img EXCEPT !.w = img.h, !.h = img.w,
                !.ops = Append(@, [op |-> "rotate", args |-> <<90>>])]

\* draw.ellipse((x0, y0, x1, y1), fill="grey")
draw_ellipse(img, box) ==
    [img EXCEPT !.ops = Append(@, [op |-> "ellipse", args |-> box])]

\* draw.polygon(staple_coords, fill="grey")
draw_polygon(img, pts) ==
    [img EXCEPT !.ops = Append(@, [op |-> "polygon", args |-> pts])]

staple_coords == <<35, 40, 75, 30, 77, 35, 37, 45>>

\* Variant: the fraction taken first and then scaled, 2 * (height // 3).
punch_centers_scaled_first(paper_punch, height) ==
    IF paper_punch = "two_holes"
        THEN <<height \div 3, 2 * (height \div 3)>>
    ELSE IF paper_punch = "three_holes"
        THEN <<height \div 4, height \div 2, 3 * (height \div 4)>>
    ELSE <<>>

\* The y coordinates the ellipses are centred on, top to bottom:
\* height // 3 and 2 * height // 3, or height // 4, height // 2, 3 * height // 4.
punch_centers(paper_punch, height) ==
    IF paper_punch = "two_holes"
        THEN <<height \div 3, (2 * height) \div 3>>
    ELSE IF paper_punch = "three_holes"
        THEN <<height \div 4, height \div 2, (3 * height) \div 4>>
    ELSE <<>>

RECURSIVE draw_holes(_, _, _)
draw_holes(img, centers, i) ==
    IF i > Len(centers) THEN img
    ELSE draw_holes(
            draw_ellipse(img, <<10, centers[i] - 10, 30, centers[i] + 10>>),
            centers, i + 1)

\* Variant: the holes placed on the image as opened, before it is turned.
annotate_punch_before_rotate(img, copy_color, orientation, paper_punch, paper_binding) ==
    LET colored == IF copy_color = "black_and_white" THEN convert_L(img) ELSE img
        punched == draw_holes(colored, punch_centers(paper_punch, colored.h), 1)
        oriented == IF orientation = "landscape" THEN rotate_90_expand(punched) ELSE punched
    IN  IF paper_binding = "corner_staple"
            THEN draw_polygon(oriented, staple_coords)
            ELSE oriented

\* The body of process_image between Image.open and img.save; width and
\* height are read from img.size after the rotation.
annotate(img, copy_color, orientation, paper_punch, paper_binding) ==
    LET colored == IF copy_color = "black_and_white" THEN convert_L(img) ELSE img
        oriented == IF orientation = "landscape" THEN rotate_90_expand(colored) ELSE colored
        height == oriented.h
        punched == draw_holes(oriented, punch_centers(paper_punch, height), 1)
    IN  IF paper_binding = "corner_staple"
            THEN draw_polygon(punched, staple_coords)
            ELSE punched

annotateWith(img, o) ==
    annotate(img, o.copy_color, o.orientation, o.paper_punch, o.paper_binding)

(***************************************************************************)
(* SpecAnnot: process_image applied to bounded inputs                      *)
(***************************************************************************)
ImageSizes == {<<1, 1>>, <<25, 20>>, <<40, 101>>, <<600, 900>>, <<900, 600>>, <<1240, 1754>>}
ImageModes == {"RGB", "L"}

NoServer ==
    /\ served = 0
    /\ req = <<>>
    /\ resp = <<>>
    /\ uploadDir = EmptyDir
    /\ imageDir = EmptyDir
    /\ currentIndex = JsNum(0)

InitAnnot ==
    /\ \E s \in ImageSizes, m \in ImageModes :
           image = Raster(0, 1, m, s[1], s[2])
    /\ passes = <<>>
    /\ result = image
    /\ NoServer

\* One call of process_image on the image the previous call saved.
ProcessImage(o) ==
    /\ Len(passes) < MaxPasses
    /\ passes' = Append(passes, o)
    /\ result' = annotateWith(result, o)
    /\ UNCHANGED <<image, serverVars>>

NextAnnot == \E o \in FinishingOptions : ProcessImage(o)

SpecAnnot == InitAnnot /\ [][NextAnnot]_vars

(***************************************************************************)
(* Storage paths                                                           *)
(***************************************************************************)
UPLOAD_FOLDER == "uploaded_files"
IMAGE_FOLDER == "pdf_images"

\* os.path.join(folder, name) and os.path.basename(path)
join(folder, name) == [folder |-> folder, name |-> name]
basename(path) == path.name

\* str.lower() on the name parts that occur in the model
lower(s) ==
    CASE s = "PDF" -> "pdf"
      [] s = "A" -> "a"
      [] OTHER -> s

\* filename.split('.')[-1].lower(): the last part, which is the whole name
\* when the name holds no dot
file_extension(filename) == lower(filename[Len(filename)])

\* os.path.splitext(filename)[0]: the name up to its last dot, provided some
\* character other than a dot precedes that dot
splitext_root(filename) ==
    IF Len(filename) > 1 /\ \E i \in 1..(Len(filename) - 1) : filename[i] # ""
        THEN SubSeq(filename, 1, Len(filename) - 1)
        ELSE filename

\* f"processed_{os.path.basename(image_path)}"
transformed_image_path(image_path) ==
    join(IMAGE_FOLDER,
         <<"processed_" \o basename(image_path)[1]>> \o Tail(basename(image_path)))

\* f"{os.path.basename(pdf_path).split('.')[0]}_page_{page_num + 1}.jpg"
page_image_path(pdf_path, page_num) ==
    join(IMAGE_FOLDER,
         <<basename(pdf_path)[1] \o "_page_" \o ToString(page_num + 1), "jpg">>)

(***************************************************************************)
(* Stored contents.  A document is known by the request that uploaded it   *)
(* and its page count; the rasters of its pages carry the same owner.      *)
(***************************************************************************)
Document(owner, pages) == [owner |-> owner, pages |-> pages]

PageSize == <<1240, 1754>>      \* an A4 page rendered by get_pixmap(dpi=150)
PictureSize == <<600, 900>>     \* an uploaded picture

PageRaster(doc, page) == Raster(doc.owner, page, "RGB", PageSize[1], PageSize[2])
PictureRaster(doc) == Raster(doc.owner, 1, "RGB", PictureSize[1], PictureSize[2])

(***************************************************************************)
(* What can go wrong inside a request: the step that raises, if any.       *)
(*   save     open(uploaded_file_path, "wb") / copyfileobj fails           *)
(*   convert  the Word / PowerPoint automation fails                       *)
(*   open     fitz.open rejects the file                                   *)
(*   image    Image.open rejects the uploaded picture                      *)
(***************************************************************************)
Faults == {"none", "save", "convert", "open", "image"}

WordExtensions == {"doc", "docx"}
PowerPointExtensions == {"ppt", "pptx"}
OfficeExtensions == {"doc", "docx", "ppt", "pptx"}
ImageExtensions == {"jpg", "jpeg", "png"}

\* convert_to_pdf(input_path, output_path): the extension is taken from the
\* path, folder included, so a name without a dot yields no known extension
\* and nothing is converted; a failure of the automation is re-raised.
convert_to_pdf(dir, input_path, output_path, fault) ==
    LET name == basename(input_path)
        extension ==
            IF Len(name) > 1 THEN lower(name[Len(name)])
            ELSE lower(input_path.folder \o "/" \o name[1])
    IN  IF extension \in WordExtensions \cup PowerPointExtensions
            THEN IF fault = "convert"
                    THEN [raised |-> TRUE, dir |-> dir]
                    ELSE [raised |-> FALSE,
                          dir |-> Put(dir, basename(output_path), dir[name])]
            ELSE [raised |-> FALSE, dir |-> dir]

\* process_image(image_path, ...): open, annotate, save under the
\* "processed_" name.  PIL picks the format to save from the extension and
\* raises, before writing, for a name that has none.
process_image(dir, image_path, o, fault) ==
    LET out == transformed_image_path(image_path)
    IN  IF fault = "image" \/ Len(basename(image_path)) = 1
            THEN [raised |-> TRUE, dir |-> dir, path |-> out]
            ELSE [raised |-> FALSE,
                  dir |-> Put(dir, basename(out), annotateWith(dir[basename(image_path)], o)),
                  path |-> out]

\* The loop over the pages of pdf_doc: save the page raster, annotate it,
\* append the annotated path.
RECURSIVE convert_pages(_, _, _, _, _, _)
convert_pages(dir, pdf_doc, pdf_path, o, page_num, converted_images) ==
    IF page_num >= pdf_doc.pages
        THEN [dir |-> dir, converted_images |-> converted_images]
        ELSE LET image_path == page_image_path(pdf_path, page_num)
                 saved == Put(dir, basename(image_path), PageRaster(pdf_doc, page_num + 1))
                 done == process_image(saved, image_path, o, "none")
             IN  convert_pages(done.dir, pdf_doc, pdf_path, o, page_num + 1,
                               Append(converted_images, done.path))

\* Variant: the files listed last to first.
generate_html_response_reversed(image_files) ==
    [kind |-> "gallery",
     images |-> [i \in 1..Len(image_files) |->
                    basename(image_files[Len(image_files) + 1 - i])]]

\* generate_html_response(image_files): one <img src="/static/<basename>">
\* per file, in list order.
generate_html_response(image_files) ==
    [kind |-> "gallery",
     images |-> [i \in 1..Len(image_files) |-> basename(image_files[i])]]

UnsupportedResponse == [kind |-> "unsupported", images |-> <<>>]
\* No handler catches: the exception leaves upload_file and the framework
\* answers 500 Internal Server Error.
UnhandledException == [kind |-> "exception", images |-> <<>>]

\* upload_file, from the saved upload to the response.
rasterize(upload, images, pdf_path, o, fault) ==
    IF fault = "open" \/ basename(pdf_path) \notin DOMAIN upload
        THEN [upload |-> upload, images |-> images, resp |-> UnhandledException]
        ELSE LET pdf_doc == upload[basename(pdf_path)]
                 pages == convert_pages(images, pdf_doc, pdf_path, o, 0, <<>>)
             IN  [upload |-> upload, images |-> pages.dir,
                  resp |-> generate_html_response(pages.converted_images)]

handle(r, filename, o, pages, fault) ==
    LET extension == file_extension(filename)
        uploaded_file_path == join(UPLOAD_FOLDER, filename)
        saved == Put(uploadDir, filename, Document(r, pages))
    IN  IF fault = "save"
            THEN [upload |-> uploadDir, images |-> imageDir, resp |-> UnhandledException]
        ELSE IF extension \in OfficeExtensions
            THEN LET pdf_path == join(UPLOAD_FOLDER, splitext_root(filename) \o <<"pdf">>)
                     conv == convert_to_pdf(saved, uploaded_file_path, pdf_path, fault)
                 IN  IF conv.raised
                        THEN [upload |-> conv.dir, images |-> imageDir,
                              resp |-> UnhandledException]
                        ELSE rasterize(conv.dir, imageDir, pdf_path, o, fault)
        ELSE IF extension = "pdf"
            THEN rasterize(saved, imageDir, uploaded_file_path, o, fault)
        ELSE IF extension \in ImageExtensions
            THEN LET image_path == join(IMAGE_FOLDER, filename)
                     copied == Put(imageDir, filename, PictureRaster(saved[filename]))
                     done == process_image(copied, image_path, o, fault)
                 IN  IF done.raised
                        THEN [upload |-> saved, images |-> done.dir,
                              resp |-> UnhandledException]
                        ELSE [upload |-> saved, images |-> done.dir,
                              resp |-> generate_html_response(<<done.path>>)]
        ELSE [upload |-> saved, images |-> imageDir, resp |-> UnsupportedResponse]

(***************************************************************************)
(* The slider script of a gallery page                                     *)
(***************************************************************************)
js_add(a, n) == IF a.nan THEN JsNaN ELSE JsNum(a.v + n)

\* a % n in JavaScript: NaN for n = 0, else the remainder with the sign of a
js_rem(a, n) ==
    IF a.nan \/ n = 0 THEN JsNaN
    ELSE IF a.v >= 0 THEN JsNum(a.v % n)
    ELSE JsNum(0 - ((0 - a.v) % n))

(***************************************************************************)
(* Spec: requests are handled one after the other.  upload_file is an      *)
(* async function that never awaits, so the event loop runs each call to   *)
(* its end before it starts the next one.                                  *)
(***************************************************************************)
UploadNames ==
    { <<"a", "pdf">>, <<"a", "b", "PDF">>, <<"a", "doc">>, <<"a", "png">>,
      <<"a", "txt">>, <<"pdf">> }

FormChoices ==
    { [copy_color |-> "black_and_white", orientation |-> "portrait",
       paper_punch |-> "no_hole", paper_binding |-> "no_staple"],
      [copy_color |-> "color", orientation |-> "landscape",
       paper_punch |-> "two_holes", paper_binding |-> "corner_staple"],
      [copy_color |-> "sepia", orientation |-> "landscape",
       paper_punch |-> "three_holes", paper_binding |-> "no_staple"] }

\* The failures a request for this file name can meet, and the page counts
\* that make a difference to it.
PagesFor(filename, fault) ==
    IF fault = "none" /\ file_extension(filename) \in OfficeExtensions \cup {"pdf"}
        THEN 0..MaxPages ELSE {1}

FaultsFor(filename) ==
    {"none", "save"}
    \cup (IF file_extension(filename) \in OfficeExtensions /\ Len(filename) > 1
            THEN {"convert"} ELSE {})
    \cup (IF file_extension(filename) \in OfficeExtensions \cup {"pdf"}
            THEN {"open"} ELSE {})
    \cup (IF file_extension(filename) \in ImageExtensions THEN {"image"} ELSE {})

Init ==
    /\ image = Raster(0, 1, "RGB", 1, 1)
    /\ passes = <<>>
    /\ result = image
    /\ NoServer

upload_file(filename, o, pages, fault) ==
    /\ served < NumRequests
    /\ LET r == served + 1
           out == handle(r, filename, o, pages, fault)
       IN  /\ served' = r
           /\ req' = Append(req, [filename |-> filename, options |-> o,
                                  pages |-> pages, fault |-> fault])
           /\ resp' = Append(resp, out.resp)
           /\ uploadDir' = out.upload
           /\ imageDir' = out.images
           /\ currentIndex' = JsNum(0)
    /\ UNCHANGED annotVars

\* moveSlider(direction): a click on Previous or Next of the gallery page
\* the latest request got back
moveSlider(direction) ==
    /\ served > 0
    /\ resp[served].kind = "gallery"
    /\ LET totalSlides == Len(resp[served].images)
       IN  currentIndex' =
              js_rem(js_add(currentIndex, direction + totalSlides), totalSlides)
    /\ UNCHANGED <<annotVars, served, req, resp, uploadDir, imageDir>>

Next ==
    \/ \E filename \in UploadNames, o \in FormChoices :
          \E fault \in FaultsFor(filename) :
              \E pages \in PagesFor(filename, fault) :
                  upload_file(filename, o, pages, fault)
    \/ \E direction \in {-1, 1} : moveSlider(direction)

Spec == Init /\ [][Next]_vars

(***************************************************************************)
(* Claims about the page annotator (checked under SpecAnnot)               *)
(***************************************************************************)
\* The PIL calls the last process_image call added to the image.
NewOps(before, after) == SubSeq(after.ops, Len(before.ops) + 1, Len(after.ops))

OpKinds(ops) == [i \in 1..Len(ops) |-> ops[i].op]

Ellipses(ops) == SelectSeq(ops, LAMBDA e : e.op = "ellipse")

Repeat(x, n) == [i \in 1..n |-> x]

HoleCount(paper_punch) ==
    IF paper_punch = "two_holes" THEN 2 ELSE IF paper_punch = "three_holes" THEN 3 ELSE 0

\* Centre and radii of the ellipse PIL draws for an inclusive bounding box.
CenterX(e) == (e.args[1] + e.args[3]) \div 2
CenterY(e) == (e.args[2] + e.args[4]) \div 2
RadiusX(e) == (e.args[3] - e.args[1]) \div 2
RadiusY(e) == (e.args[4] - e.args[2]) \div 2

\* C3: every process_image call performs its steps in the order color
\* reduction, orientation, punch marks, binding mark, each only when its
\* option asks for it, and the punch marks are centred on fractions of the
\* height the image has after the rotation: the width it had before the call
\* when orientation is landscape, its height otherwise.
C3_FixedOrder ==
    [][ passes' # passes =>
          LET o == passes'[Len(passes')]
              ops == NewOps(result, result')
              finalHeight == IF o.orientation = "landscape" THEN result.w ELSE result.h
              n == HoleCount(o.paper_punch)
              holes == Ellipses(ops)
          IN  /\ OpKinds(ops) =
                    (IF o.copy_color = "black_and_white" THEN <<"convert">> ELSE <<>>)
                    \o (IF o.orientation = "landscape" THEN <<"rotate">> ELSE <<>>)
                    \o Repeat("ellipse", n)
                    \o (IF o.paper_binding = "corner_staple" THEN <<"polygon">> ELSE <<>>)
              /\ Len(holes) = n
              /\ \A j \in 1..n : CenterY(holes[j]) = (j * finalHeight) \div (n + 1)
      ]_vars

\* A landscape call on an image that is wider than tall drew two holes whose
\* centres are those of the original width, not of the original height.
C3_Witness ==
    /\ Len(passes) = 1
    /\ passes[1].orientation = "landscape"
    /\ passes[1].copy_color = "black_and_white"
    /\ passes[1].paper_punch = "two_holes"
    /\ passes[1].paper_binding = "corner_staple"
    /\ image.w = 900 /\ image.h = 600
    /\ CenterY(Ellipses(result.ops)[1]) = 300
    /\ CenterY(Ellipses(result.ops)[1]) # image.h \div 3

\* C4: for the final height h of the image, two_holes draws exactly two
\* circles of radius 10 centred at (20, floor(h/3)) and (20, floor(2h/3)),
\* three_holes exactly three centred at (20, floor(h/4)), (20, floor(h/2)) and
\* (20, floor(3h/4)), no_hole none; for h = 900 and two_holes the centres are
\* y = 300 and y = 600.
C4_PunchGeometry ==
    [][ passes' # passes =>
          LET o == passes'[Len(passes')]
              h == result'.h
              holes == Ellipses(NewOps(result, result'))
              centers == [j \in 1..Len(holes) |-> <<CenterX(holes[j]), CenterY(holes[j])>>]
          IN  /\ \A j \in 1..Len(holes) : RadiusX(holes[j]) = 10 /\ RadiusY(holes[j]) = 10
              /\ o.paper_punch = "two_holes" =>
                    centers = << <<20, h \div 3>>, <<20, (2 * h) \div 3>> >>
              /\ o.paper_punch = "three_holes" =>
                    centers = << <<20, h \div 4>>, <<20, h \div 2>>, <<20, (3 * h) \div 4>> >>
              /\ o.paper_punch = "no_hole" => centers = <<>>
              /\ (o.paper_punch = "two_holes" /\ h = 900) =>
                    centers = << <<20, 300>>, <<20, 600>> >>
      ]_vars

\* Two holes were drawn on a 900 pixel tall image, at y = 300 and y = 600.
C4_Witness ==
    /\ Len(passes) = 1
    /\ passes[1].paper_punch = "two_holes"
    /\ result.h = 900
    /\ Len(Ellipses(result.ops)) = 2
    /\ Ellipses(result.ops)[1].args = <<10, 290, 30, 310>>
    /\ Ellipses(result.ops)[2].args = <<10, 590, 30, 610>>

\* C8: every punch mark that is drawn lies with its whole bounding box
\* inside the image: x from 10 to 30 within 0..w-1 and y from centre-10 to
\* centre+10 within 0..h-1.
C8_MarksInsideImage ==
    Len(passes) = 1 =>
        \A j \in 1..Len(Ellipses(result.ops)) :
            LET box == Ellipses(result.ops)[j].args
            IN  /\ 0 <= box[1] /\ box[3] <= result.w - 1
                /\ 0 <= box[2] /\ box[4] <= result.h - 1

\* C9: landscape turns an image of size (w, h) into one of size (h, w),
\* portrait keeps (w, h), and the other three options never change the size;
\* so after any chain of calls the size is the original one when the number
\* of landscape calls is even, and the swapped one when it is odd.
Landscapes == Cardinality({i \in 1..Len(passes) : passes[i].orientation = "landscape"})

C9_Dimensions ==
    /\ Landscapes % 2 = 0 => (result.w = image.w /\ result.h = image.h)
    /\ Landscapes % 2 = 1 => (result.w = image.h /\ result.h = image.w)

\* Two landscape calls on a non-square image gave back the original size.
C9_Witness ==
    /\ Len(passes) = 2
    /\ passes[1].orientation = "landscape"
    /\ passes[2].orientation = "landscape"
    /\ image.w # image.h
    /\ Len(SelectSeq(result.ops, LAMBDA e : e.op = "rotate")) = 2
    /\ result.w = image.w /\ result.h = image.h

(***************************************************************************)
(* Claims about the upload handler and the gallery (checked under Spec)    *)
(***************************************************************************)
Served == 1..served

\* What request r uploaded, and the annotated image its page i should show.
OwnDocument(r) == Document(r, req[r].pages)

OwnAnnotated(r, i) ==
    IF file_extension(req[r].filename) \in ImageExtensions
        THEN annotateWith(PictureRaster(OwnDocument(r)), req[r].options)
        ELSE annotateWith(PageRaster(OwnDocument(r), i), req[r].options)

\* C1: whatever the order of two uploads with different options, the gallery
\* each request got shows only images made from its own file with its own
\* options, and the upload it stored is still its own: nothing of one
\* request is overwritten or read by the other.  (Stated for requests that
\* were answered with a gallery of at least one image.)
C1_NoLeakBetweenRequests ==
    \A r, q \in Served :
        (/\ r # q
         /\ req[r].options # req[q].options
         /\ resp[r].kind = "gallery" /\ resp[r].images # <<>>
         /\ resp[q].kind = "gallery" /\ resp[q].images # <<>>) =>
            /\ \A i \in 1..Len(resp[r].images) :
                  /\ resp[r].images[i] \in DOMAIN imageDir
                  /\ imageDir[resp[r].images[i]].owner = r
                  /\ imageDir[resp[r].images[i]] = OwnAnnotated(r, i)
            /\ req[r].filename \in DOMAIN uploadDir
            /\ uploadDir[req[r].filename].owner = r

\* C2: a request with an option outside its domain fails with InvalidOption
\* and leaves no file behind in either directory.
C2_InvalidOptionRejected ==
    \A r \in Served :
        ~ValidOptions(req[r].options) =>
            /\ resp[r].kind = "invalid_option"
            /\ \A n \in DOMAIN uploadDir : uploadDir[n].owner # r
            /\ \A n \in DOMAIN imageDir : imageDir[n].owner # r

\* C5: every request ends with a gallery page or a user-facing error page;
\* no failure of conversion, rasterization or file access leaves the handler
\* as an unhandled exception.
C5_FailuresBecomeErrorPages ==
    \A r \in Served :
        /\ resp[r].kind \in {"gallery", "unsupported", "error_page"}
        /\ req[r].fault # "none" => resp[r].kind # "gallery"

\* C6: a request whose extension, the text after the last dot of the file
\* name in lower case, is outside the supported set ends with the
\* unsupported-type message and nothing rasterized or annotated; a request
\* whose extension is in the set is never rejected as unsupported.  (Requests
\* that meet no failure; a name without a dot has no text after a dot.)
SupportedExtensions == {"doc", "docx", "ppt", "pptx", "pdf", "jpg", "jpeg", "png"}

TextAfterLastDot(filename) ==
    IF Len(filename) > 1 THEN lower(filename[Len(filename)]) ELSE ""

C6_UnsupportedExtensions ==
    \A r \in Served :
        req[r].fault = "none" =>
            IF TextAfterLastDot(req[r].filename) \in SupportedExtensions
                THEN resp[r].kind # "unsupported"
                ELSE /\ resp[r].kind = "unsupported"
                     /\ resp[r].images = <<>>

\* C7: when a request is answered with a gallery, the gallery holds one image
\* per page of the upload (one for a picture), the i-th image is the
\* annotated image of page i, and no image occurs twice.
C7_GalleryOrder ==
    (served > 0 /\ resp[served].kind = "gallery") =>
        LET r == served
            images == resp[r].images
            n == IF file_extension(req[r].filename) \in ImageExtensions
                    THEN 1 ELSE req[r].pages
        IN  /\ Len(images) = n
            /\ \A i \in 1..n :
                  /\ images[i] \in DOMAIN imageDir
                  /\ imageDir[images[i]] = OwnAnnotated(r, i)
                  /\ imageDir[images[i]].page = i
            /\ \A i, j \in 1..n : images[i] = images[j] => i = j

\* A two-page PDF was answered with a gallery of two images, page 1 first.
C7_Witness ==
    /\ served > 0
    /\ resp[served].kind = "gallery"
    /\ req[served].filename = <<"a", "pdf">>
    /\ req[served].pages = 2
    /\ resp[served].images =
          << <<"processed_a_page_1", "jpg">>, <<"processed_a_page_2", "jpg">> >>
    /\ imageDir[<<"processed_a_page_2", "jpg">>].page = 2

\* C10: a PDF without pages is answered with a gallery page that holds no
\* image, and whatever is clicked there the slide index stays a number.
C10_EmptyGallery ==
    (/\ served > 0
     /\ file_extension(req[served].filename) = "pdf"
     /\ req[served].pages = 0
     /\ req[served].fault = "none") =>
        /\ resp[served].kind = "gallery"
        /\ resp[served].images = <<>>
        /\ ~currentIndex.nan

====
